---- MODULE Spec2Model ----
(***************************************************************************)
(* State-machine model of the eblob binary log (binlog.c):                 *)
(* binlog_create / binlog_open / binlog_append / binlog_read /             *)
(* binlog_apply / binlog_close, the file they share, the advisory lock,    *)
(* and the stable storage behind the page cache.                           *)
(*                                                                         *)
(* The file is a sequence of cells.  Every field of an on-disk structure   *)
(* occupies one cell and every payload byte occupies one cell, so offsets, *)
(* sizes and sizeof() are all counted in cells.                            *)
(***************************************************************************)
EXTENDS Integers, Sequences, FiniteSets, TLC

(* ----------------------------- bounds ---------------------------------- *)
\* how many appends are called, how many system calls fail, how often the
\* machine loses power in one behaviour
MaxAppends == 2
MaxFaults == 1
MaxCrashes == 1

(* ------------------- constants of binlog.h ----------------------------- *)
EBLOB_BINLOG_MAGIC == 9
EBLOB_BINLOG_VERSION == 1
EBLOB_BINLOG_FLAGS_CFG_SYNC == 1
EBLOB_BINLOG_FLAGS_CFG_PREALLOC == 2
EBLOB_BINLOG_FLAGS_CFG_TRUNCATE == 4
EBLOB_BINLOG_FLAGS_CFG_ALL == 7
EBLOB_BINLOG_TYPE_FIRST == 0
EBLOB_BINLOG_TYPE_LAST == 3
EBLOB_BINLOG_DEFAULTS_PREALLOC_STEP == 4
\* sizeof(struct eblob_binlog_disk_hdr): magic, version, flags
DHDR_SIZE == 3
\* sizeof(struct eblob_binlog_disk_record_hdr): type, size, meta_size, flags, key
RHDR_SIZE == 5
\* bits of off_t and of the size field of a record header, scaled down
OffBits == 6

(* ------------------------- input palettes ------------------------------ *)
Handles == {1, 2}
\* configurations a caller may set on a handle after binlog_init
FlagConfigs == {0, EBLOB_BINLOG_FLAGS_CFG_PREALLOC, EBLOB_BINLOG_FLAGS_CFG_SYNC}
\* what the never-assigned rhdr.meta_size of binlog_append may hold
StackGarbage == {0, 1}
NoCtl == [type |-> 0, flags |-> 0, key |-> 0, meta |-> <<>>, data |-> <<>>]
\* the descriptors handed to binlog_append: metadata and data, neither,
\* data only
CtlInputs ==
  {[type |-> 1, flags |-> 0, key |-> 7, meta |-> <<1>>, data |-> <<2>>],
   [type |-> 2, flags |-> 0, key |-> 8, meta |-> <<>>, data |-> <<>>],
   [type |-> 1, flags |-> 0, key |-> 8, meta |-> <<>>, data |-> <<0>>]}

Min(a, b) == IF a < b THEN a ELSE b
Max(a, b) == IF a > b THEN a ELSE b

(* --------------------------- bit operations ---------------------------- *)
RECURSIVE BitAnd(_, _)
BitAnd(a, b) ==
  IF a = 0 \/ b = 0 THEN 0
  ELSE (a % 2) * (b % 2) + 2 * BitAnd(a \div 2, b \div 2)

\* a & ~mask
AndNot(a, mask) == a - BitAnd(a, mask)

HasFlag(f, b) == BitAnd(f, b) # 0

(* ------------------------ the file as the OS sees it ------------------- *)
\* pread(fd, buf, n, off): the cells read, fewer than n at end of file
PRead(f, off, n) == SubSeq(f, off + 1, Min(off + n, Len(f)))

Zeros(n) == [i \in 1..n |-> 0]

\* ftruncate(fd, n): cut, or extend with zeros
SetSize(f, n) == IF n <= Len(f) THEN SubSeq(f, 1, n) ELSE f \o Zeros(n - Len(f))

\* pwrite(fd, buf, Len(b), off): a hole below off reads as zeros
PWrite(f, off, b) ==
  IF Len(b) = 0 THEN f
  ELSE LET g == IF Len(f) < off THEN SetSize(f, off) ELSE f
       IN SubSeq(g, 1, off) \o b \o SubSeq(g, off + Len(b) + 1, Len(g))

\* _binlog_allocate(fd, size): reserve space up to size, never shrinks
Allocate(f, n) == IF Len(f) >= n THEN f ELSE SetSize(f, n)

Prefix(s, k) == SubSeq(s, 1, k)

(* ------------------------------ codecs --------------------------------- *)
binlog_verify_hdr(dhdr) ==
  IF dhdr[1] # EBLOB_BINLOG_MAGIC THEN "EINVAL"
  ELSE IF dhdr[2] # EBLOB_BINLOG_VERSION THEN "ENOTSUP"
  ELSE IF AndNot(dhdr[3], EBLOB_BINLOG_FLAGS_CFG_ALL) # 0 THEN "EINVAL"
  ELSE "OK"

\* rhdr = <<type, size, meta_size, flags, key>>
binlog_verify_record_hdr(rhdr) ==
  IF rhdr[1] <= EBLOB_BINLOG_TYPE_FIRST \/ rhdr[1] >= EBLOB_BINLOG_TYPE_LAST
  THEN "EINVAL"
  ELSE IF rhdr[4] # 0 THEN "EINVAL"
  ELSE "OK"

binlog_read_record_hdr(f, offset) ==
  LET r == PRead(f, offset, RHDR_SIZE) IN
  IF Len(r) # RHDR_SIZE THEN [err |-> "EINTR", rhdr |-> <<>>]
  ELSE [err |-> binlog_verify_record_hdr(r), rhdr |-> r]

\* off_t arithmetic: two's complement of OffBits bits
WrapOff(x) ==
  LET m == x % (2 ^ OffBits)
  IN IF m >= 2 ^ (OffBits - 1) THEN m - 2 ^ OffBits ELSE m

\* the loop of binlog_get_next_lsn from lsn on; seen: the offsets it has read
\* a valid header at; asserts: assert(offset > 0) of binlog_read_record_hdr
\* is compiled in.  end: "stop" a header read or verify failed, "assert" the
\* assertion failed, "loop" the scan is back at an offset it has read
RECURSIVE ScanFrom(_, _, _, _)
ScanFrom(f, lsn, seen, asserts) ==
  IF lsn \in seen THEN [end |-> "loop", lsn |-> lsn]
  ELSE IF lsn <= 0 /\ asserts THEN [end |-> "assert", lsn |-> lsn]
  ELSE IF lsn < 0 THEN [end |-> "stop", lsn |-> lsn]    \* pread: EINVAL
  ELSE LET r == binlog_read_record_hdr(f, lsn) IN
       IF r.err = "OK"
       THEN ScanFrom(f, WrapOff(lsn + r.rhdr[2] + RHDR_SIZE), seen \cup {lsn}, asserts)
       ELSE [end |-> "stop", lsn |-> lsn]

binlog_get_next_lsn(f, asserts) == ScanFrom(f, DHDR_SIZE, {}, asserts)

(* ------------------------------- state --------------------------------- *)
VARIABLES
  exists,     \* the log file is present at binlog_path
  file,       \* its content as every descriptor reads it (page cache)
  durable,    \* its content on stable storage
  fdt,        \* fdt[h]: descriptors open in the process of handle h
  locks,      \* <<h, fd>>: open file descriptions holding the flock
  bcfg,       \* bcfg[h]: struct eblob_binlog_cfg of handle h
  pc,         \* pc[h]: where handle h stands inside an operation
  loc,        \* loc[h]: locals of the running operation
  ret,        \* ret[h]: operation and value of the last return
  hist,       \* records whose append returned 0, with their offsets
  out,        \* out[h]: what the last binlog_read / binlog_apply produced
  gh,         \* gh[h]: bookkeeping about the current open of handle h
  gst,        \* bookkeeping about the file: cursor at the last close, torn tail
  cnt         \* how many faults, crashes, appends may still happen

vars == <<exists, file, durable, fdt, locks, bcfg, pc, loc, ret, hist, out, gh, gst, cnt>>

NoOut == [kind |-> "none", err |-> "OK", at |-> 0, recs |-> <<>>, offs |-> <<>>, off |-> 0]
NoLoc == [fd |-> -1, err |-> "OK", ctl |-> NoCtl, garb |-> 0, off |-> 0, done |-> <<>>]
NoRet == [op |-> "none", err |-> "OK"]

\* binlog_init: calloc'ed structure, fd = -1, configured flags
binlog_init(flags) ==
  [fd |-> -1, flags |-> flags, prealloc_size |-> 0, binlog_position |-> 0,
   disk_hdr |-> <<>>]

\* created: this open made the file; pos0: the cursor when the running or
\* last append was entered; opens: calls of binlog_open so far (2: several)
\* hint: how the handle's latest eblob_pagecache_hint call came back
NoGh == [created |-> FALSE, pos0 |-> 0, opens |-> 0, hint |-> "none"]

\* closedAt: the cursor when binlog_close last returned 0; tornAt: where the
\* record cut by TruncateTail starts; crashed: power was lost (-1, FALSE: none)
NoGst == [closedAt |-> -1, tornAt |-> -1, crashed |-> FALSE]

\* the file does not exist yet, every handle is fresh from binlog_init
InitWith(budget) ==
  /\ exists = FALSE
  /\ file = <<>>
  /\ durable = file
  /\ fdt = [h \in Handles |-> {}]
  /\ locks = {}
  /\ \E f \in FlagConfigs : bcfg = [h \in Handles |-> binlog_init(IF h = 1 THEN f ELSE 0)]
  /\ pc = [h \in Handles |-> "idle"]
  /\ loc = [h \in Handles |-> NoLoc]
  /\ ret = [h \in Handles |-> NoRet]
  /\ hist = <<>>
  /\ out = [h \in Handles |-> NoOut]
  /\ gh = [h \in Handles |-> NoGh]
  /\ gst = NoGst
  /\ cnt = budget

Init == InitWith([faults |-> MaxFaults, crashes |-> 0, appends |-> MaxAppends])

(* --------------------------- kernel helpers ---------------------------- *)
\* open(2) returns the lowest descriptor number that is free
LowestFree(S) == CHOOSE n \in 3..(3 + Cardinality(S)) : n \notin S /\ \A m \in 3..(n - 1) : m \in S

CanFault == cnt.faults > 0
Fault == cnt' = [cnt EXCEPT !.faults = @ - 1]

\* eblob_pagecache_hint(fd, flag) returns 0 or an error code
HintOutcomes == {"OK", "EINVAL"}

\* the hint comes back with hr; the step has other failing system calls
Hint(h, hr, others) ==
  LET n == others + (IF hr = "OK" THEN 0 ELSE 1) IN
  /\ cnt.faults >= n
  /\ cnt' = [cnt EXCEPT !.faults = @ - n]
  /\ gh' = [gh EXCEPT ![h].hint = hr]

\* close(fd): the descriptor goes, and with it the lock of its description
CloseFd(h, fd) ==
  /\ fdt' = [fdt EXCEPT ![h] = @ \ {fd}]
  /\ locks' = locks \ {<<h, fd>>}

\* the operation returns err to its caller
Return(h, op, err) ==
  /\ pc' = [pc EXCEPT ![h] = "idle"]
  /\ ret' = [ret EXCEPT ![h] = [op |-> op, err |-> err]]
  /\ loc' = [loc EXCEPT ![h] = NoLoc]

\* a failed assert() aborts the process: the kernel closes its descriptors
Abort(h, op) ==
  /\ pc' = [pc EXCEPT ![h] = "abort"]
  /\ ret' = [ret EXCEPT ![h] = [op |-> op, err |-> "SIGABRT"]]
  /\ loc' = [loc EXCEPT ![h] = NoLoc]
  /\ fdt' = [fdt EXCEPT ![h] = {}]
  /\ locks' = {l \in locks : l[1] # h}

\* an assert() whose condition is cond lets the program continue: the
\* condition holds, or the build defines NDEBUG
AssertPasses(cond) == TRUE

Goto(h, label) == pc' = [pc EXCEPT ![h] = label]

\* the operation op is entered and has not returned yet
Begin(h, op) == ret' = [ret EXCEPT ![h] = [op |-> op, err |-> "EINPROGRESS"]]

(* ------------------------------ binlog_open ---------------------------- *)
dhdr_of(flags) == <<EBLOB_BINLOG_MAGIC, EBLOB_BINLOG_VERSION, flags>>

\* the open(O_CREAT | O_EXCL) of binlog_create
OpenCreateOutcome(h) ==
  \/ /\ exists       \* EEXIST is tolerated
     /\ Goto(h, "o_reopen")
     /\ Begin(h, "open")
     /\ loc' = [loc EXCEPT ![h] = [NoLoc EXCEPT !.err = "EEXIST"]]
     /\ gh' = [gh EXCEPT ![h] = [NoGh EXCEPT !.opens = Min(gh[h].opens + 1, 2)]]
     /\ UNCHANGED <<exists, file, durable, fdt, locks, cnt>>
  \/ /\ ~exists
     /\ exists' = TRUE
     /\ file' = <<>>
     /\ durable' = <<>>
     /\ fdt' = [fdt EXCEPT ![h] = @ \cup {LowestFree(@)}]
     /\ loc' = [loc EXCEPT ![h] = [NoLoc EXCEPT !.fd = LowestFree(fdt[h])]]
     /\ gh' = [gh EXCEPT ![h] = [NoGh EXCEPT !.created = TRUE,
                                      !.opens = Min(gh[h].opens + 1, 2)]]
     /\ Goto(h, "c_extend")
     /\ Begin(h, "open")
     /\ UNCHANGED <<locks, cnt>>
  \/ /\ ~exists
     /\ CanFault
     /\ Return(h, "open", "EACCES")
     /\ Fault
     /\ gh' = [gh EXCEPT ![h].opens = Min(@ + 1, 2)]
     /\ UNCHANGED <<exists, file, durable, fdt, locks>>

\* binlog_open entry: assert(bcfg->fd == -1), then binlog_create
OpenCreate(h) ==
  /\ pc[h] = "idle"
  /\ out' = [out EXCEPT ![h] = NoOut]
  /\ UNCHANGED <<gst, bcfg, hist>>
  /\ \/ /\ bcfg[h].fd # -1   \* assert(bcfg->fd == -1) fails
        /\ Abort(h, "open")
        /\ gh' = [gh EXCEPT ![h].opens = Min(@ + 1, 2)]
        /\ UNCHANGED <<exists, file, durable, cnt>>
     \/ /\ AssertPasses(bcfg[h].fd = -1)
        /\ OpenCreateOutcome(h)

\* binlog_extend(bcfg, fd): returns <<err ok?, prealloc_size, file>> choices
binlog_extend(h) ==
  /\ bcfg' = [bcfg EXCEPT ![h].prealloc_size =
                IF HasFlag(bcfg[h].flags, EBLOB_BINLOG_FLAGS_CFG_PREALLOC)
                THEN @ + EBLOB_BINLOG_DEFAULTS_PREALLOC_STEP ELSE @]
  /\ file' = IF HasFlag(bcfg[h].flags, EBLOB_BINLOG_FLAGS_CFG_PREALLOC)
             THEN Allocate(file, bcfg'[h].prealloc_size) ELSE file

\* _binlog_allocate failed inside binlog_extend: the counter stays raised
binlog_extend_fails(h) ==
  /\ HasFlag(bcfg[h].flags, EBLOB_BINLOG_FLAGS_CFG_PREALLOC)
  /\ CanFault
  /\ bcfg' = [bcfg EXCEPT ![h].prealloc_size = @ + EBLOB_BINLOG_DEFAULTS_PREALLOC_STEP]
  /\ file' = file

\* binlog_create: "Allocate"
CreateExtend(h) ==
  /\ pc[h] = "c_extend"
  /\ UNCHANGED <<gst, exists, durable, hist, out, gh>>
  /\ \/ /\ binlog_extend(h)
        /\ Goto(h, "c_hdr")
        /\ UNCHANGED <<fdt, locks, loc, ret, cnt>>
     \/ /\ binlog_extend_fails(h)
        /\ CloseFd(h, loc[h].fd)
        /\ Return(h, "open", "ENOSPC")
        /\ Fault

\* binlog_hdr_write(fd, dhdr): pwrite at 0, then binlog_datasync.
\* The outcomes: <<err, file', durable'>>
HdrWriteOutcomes(dhdr) ==
  {<<"OK", PWrite(file, 0, dhdr), PWrite(file, 0, dhdr)>>}
  \cup (IF CanFault
        THEN {<<"EINTR", PWrite(file, 0, Prefix(dhdr, k)), durable>> : k \in 0..(Len(dhdr) - 1)}
             \cup {<<"EIO", file, durable>>}             \* pwrite returned -1
             \cup {<<"EIO", PWrite(file, 0, dhdr), durable>>}  \* datasync failed
        ELSE {})

\* binlog_create: "Save header", then close(fd)
CreateHdr(h) ==
  /\ pc[h] = "c_hdr"
  /\ UNCHANGED <<gst, exists, bcfg, hist, out, gh>>
  /\ CloseFd(h, loc[h].fd)
  /\ \E o \in HdrWriteOutcomes(dhdr_of(bcfg[h].flags)) :
       /\ file' = o[2]
       /\ durable' = o[3]
       /\ IF o[1] = "OK"
          THEN /\ Goto(h, "o_reopen")
               /\ loc' = [loc EXCEPT ![h].fd = -1]
               /\ UNCHANGED <<ret, cnt>>
          ELSE /\ Return(h, "open", o[1])
               /\ Fault

\* "Open created/already existent binlog"
OpenReopen(h) ==
  /\ pc[h] = "o_reopen"
  /\ UNCHANGED <<gst, exists, file, durable, locks, bcfg, hist, out, gh>>
  /\ \/ /\ exists
        /\ fdt' = [fdt EXCEPT ![h] = @ \cup {LowestFree(@)}]
        /\ loc' = [loc EXCEPT ![h].fd = LowestFree(fdt[h])]
        /\ Goto(h, "o_lock")
        /\ UNCHANGED <<ret, cnt>>
     \/ /\ ~exists \/ CanFault
        /\ Return(h, "open", IF exists THEN "EMFILE" ELSE "ENOENT")
        /\ IF exists THEN Fault ELSE UNCHANGED cnt
        /\ UNCHANGED fdt

\* flock that never refuses, as with LOCK_SH in place of LOCK_EX
FlockGranted_Shared(h, fd) == TRUE

\* flock(fd, LOCK_EX | LOCK_NB) is granted when no other description holds it
FlockGranted(h, fd) == locks \subseteq {<<h, fd>>}

\* "Lock binlog"
\* an open that truncates as soon as it has the descriptor, before flock
OpenLock_TruncatesFirst(h) ==
  /\ pc[h] = "o_lock"
  /\ UNCHANGED <<exists, durable, bcfg, out, gh, gst, cnt>>
  /\ file' = IF HasFlag(bcfg[h].flags, EBLOB_BINLOG_FLAGS_CFG_TRUNCATE)
             THEN SetSize(file, DHDR_SIZE) ELSE file
  /\ hist' = IF HasFlag(bcfg[h].flags, EBLOB_BINLOG_FLAGS_CFG_TRUNCATE)
             THEN <<>> ELSE hist
  /\ IF FlockGranted(h, loc[h].fd)
     THEN /\ locks' = locks \cup {<<h, loc[h].fd>>}
          /\ Goto(h, "o_trunc")
          /\ UNCHANGED <<fdt, loc, ret>>
     ELSE /\ CloseFd(h, loc[h].fd)
          /\ Return(h, "open", "EWOULDBLOCK")

OpenLock(h) ==
  /\ pc[h] = "o_lock"
  /\ UNCHANGED <<exists, file, durable, bcfg, hist, out, gh, gst, cnt>>
  /\ IF FlockGranted(h, loc[h].fd)
     THEN /\ locks' = locks \cup {<<h, loc[h].fd>>}
          /\ Goto(h, "o_trunc")
          /\ UNCHANGED <<fdt, loc, ret>>
     ELSE /\ CloseFd(h, loc[h].fd)       \* err_close
          /\ Return(h, "open", "EWOULDBLOCK")

\* an open that ignores the truncate flag
OpenTrunc_NoTruncate(h) ==
  /\ pc[h] = "o_trunc"
  /\ UNCHANGED <<gst, exists, durable, out>>
  /\ file' = file
  /\ hist' = hist
  /\ bcfg' = [bcfg EXCEPT ![h].fd = loc[h].fd]
  /\ \E hr \in HintOutcomes : Hint(h, hr, 0)
  /\ Goto(h, "o_stat")
  /\ UNCHANGED <<fdt, locks, loc, ret>>

\* "Truncate binlog if requested", bcfg->fd = fd, page cache hint
OpenTrunc(h) ==
  /\ pc[h] = "o_trunc"
  /\ UNCHANGED <<gst, exists, durable, out>>
  /\ \/ /\ file' = IF HasFlag(bcfg[h].flags, EBLOB_BINLOG_FLAGS_CFG_TRUNCATE)
                   THEN SetSize(file, DHDR_SIZE) ELSE file
        /\ hist' = IF HasFlag(bcfg[h].flags, EBLOB_BINLOG_FLAGS_CFG_TRUNCATE)
                   THEN <<>> ELSE hist
        /\ bcfg' = [bcfg EXCEPT ![h].fd = loc[h].fd]
        /\ \E hr \in HintOutcomes : Hint(h, hr, 0)
        /\ Goto(h, "o_stat")
        /\ UNCHANGED <<fdt, locks, loc, ret>>
     \/ /\ HasFlag(bcfg[h].flags, EBLOB_BINLOG_FLAGS_CFG_TRUNCATE)
        /\ CanFault
        /\ CloseFd(h, loc[h].fd)         \* err_unlock, err_close
        /\ Return(h, "open", "EIO")
        /\ Fault
        /\ gh' = [gh EXCEPT ![h].hint = "none"]     \* the hint is not reached
        /\ UNCHANGED <<file, bcfg, hist>>

\* "Stat binlog"
OpenStat(h) ==
  /\ pc[h] = "o_stat"
  /\ UNCHANGED <<gst, exists, file, durable, hist, out, gh>>
  /\ \/ /\ bcfg' = [bcfg EXCEPT ![h].prealloc_size = Len(file)]
        /\ Goto(h, "o_hdr")
        /\ UNCHANGED <<fdt, locks, loc, ret, cnt>>
     \/ /\ CanFault
        /\ CloseFd(h, loc[h].fd)
        /\ Return(h, "open", "EIO")
        /\ Fault
        /\ UNCHANGED bcfg

\* binlog_hdr_read(fd, &dhdr): <<err, dhdr>>
binlog_hdr_read(f) ==
  LET d == PRead(f, 0, DHDR_SIZE) IN
  IF Len(d) # DHDR_SIZE THEN <<"EINTR", <<>> >>
  ELSE IF binlog_verify_hdr(d) # "OK" THEN <<binlog_verify_hdr(d), <<>> >>
  ELSE <<"OK", d>>

\* "Read header" and "Find last LSN"
OpenHdr(h) ==
  /\ pc[h] = "o_hdr"
  /\ UNCHANGED <<gst, exists, file, durable, hist, out, gh>>
  /\ \/ /\ binlog_hdr_read(file)[1] = "OK"
        /\ binlog_get_next_lsn(file, TRUE).end = "assert"
        /\ Abort(h, "open")
        /\ UNCHANGED <<bcfg, cnt>>
     \/ /\ binlog_hdr_read(file)[1] = "OK"
        /\ AssertPasses(binlog_get_next_lsn(file, TRUE).end # "assert")
        /\ LET scan == IF binlog_get_next_lsn(file, TRUE).end = "assert"
                       THEN binlog_get_next_lsn(file, FALSE)
                       ELSE binlog_get_next_lsn(file, TRUE)
           IN IF scan.end = "loop"
              THEN /\ bcfg' = [bcfg EXCEPT ![h].disk_hdr = binlog_hdr_read(file)[2]]
                   /\ Goto(h, "o_scan")       \* the while loop never ends
                   /\ UNCHANGED <<loc, ret>>
              ELSE /\ bcfg' = [bcfg EXCEPT ![h].disk_hdr = binlog_hdr_read(file)[2],
                                           ![h].binlog_position = scan.lsn]
                   /\ Return(h, "open", "OK")
        /\ UNCHANGED <<fdt, locks, cnt>>
     \/ /\ binlog_hdr_read(file)[1] # "OK"
        /\ CloseFd(h, loc[h].fd)
        /\ Return(h, "open", binlog_hdr_read(file)[1])
        /\ UNCHANGED <<bcfg, cnt>>
     \/ /\ CanFault                       \* malloc or pread failed
        /\ CloseFd(h, loc[h].fd)
        /\ Return(h, "open", "ENOMEM")
        /\ Fault
        /\ UNCHANGED bcfg

(* ------------------------------ binlog_close --------------------------- *)
\* binlog_close entry, "Write": binlog_hdr_write(bcfg->fd, bcfg->disk_hdr)
CloseHdr(h) ==
  /\ pc[h] = "idle"
  /\ out' = [out EXCEPT ![h] = NoOut]
  /\ UNCHANGED <<gst, exists, fdt, locks, bcfg, hist, gh>>
  /\ IF bcfg[h].fd < 0 \/ bcfg[h].disk_hdr = <<>>
     THEN /\ Return(h, "close", "EINVAL")
          /\ UNCHANGED <<file, durable, cnt>>
     ELSE IF bcfg[h].fd \notin fdt[h]
     THEN /\ Return(h, "close", "EBADF")
          /\ UNCHANGED <<file, durable, cnt>>
     ELSE \E o \in HdrWriteOutcomes(bcfg[h].disk_hdr) :
            /\ file' = o[2]
            /\ durable' = o[3]
            /\ IF o[1] = "OK"
               THEN Goto(h, "cl_sync") /\ Begin(h, "close") /\ UNCHANGED <<loc, cnt>>
               ELSE Return(h, "close", o[1]) /\ Fault

\* a close that cleans up behind a failed sync: the descriptor is closed,
\* and its lock goes with it
CloseSync_ClosesOnError(h) ==
  /\ pc[h] = "cl_sync"
  /\ UNCHANGED <<gst, exists, file, bcfg, hist, out, gh>>
  /\ \/ /\ durable' = file
        /\ Goto(h, "cl_unlock")
        /\ UNCHANGED <<fdt, locks, loc, ret, cnt>>
     \/ /\ CanFault
        /\ CloseFd(h, bcfg[h].fd)
        /\ Return(h, "close", "EIO")
        /\ Fault
        /\ UNCHANGED durable

\* "Sync": binlog_sync(bcfg->fd)
CloseSync(h) ==
  /\ pc[h] = "cl_sync"
  /\ UNCHANGED <<gst, exists, file, fdt, locks, bcfg, hist, out, gh>>
  /\ \/ /\ durable' = file
        /\ Goto(h, "cl_unlock")
        /\ UNCHANGED <<loc, ret, cnt>>
     \/ /\ CanFault
        /\ Return(h, "close", "EIO")
        /\ Fault
        /\ UNCHANGED durable

\* "Unlock": flock(bcfg->fd, LOCK_UN)
CloseUnlock(h) ==
  /\ pc[h] = "cl_unlock"
  /\ UNCHANGED <<gst, exists, file, durable, fdt, bcfg, hist, out, gh>>
  /\ \/ /\ locks' = locks \ {<<h, bcfg[h].fd>>}
        /\ Goto(h, "cl_close")
        /\ UNCHANGED <<loc, ret, cnt>>
     \/ /\ CanFault
        /\ Return(h, "close", "EINTR")
        /\ Fault
        /\ UNCHANGED locks

\* page cache hint and "Close": close(bcfg->fd); bcfg->fd keeps its value
\* a close that takes a failed hint for an error: goto err
CloseClose_HintFatal(h) ==
  /\ pc[h] = "cl_close"
  /\ UNCHANGED <<exists, file, durable, bcfg, hist, out>>
  /\ \E hr \in HintOutcomes :
       \/ /\ hr = "OK"
          /\ Hint(h, hr, 0)
          /\ CloseFd(h, bcfg[h].fd)
          /\ gst' = [gst EXCEPT !.closedAt = bcfg[h].binlog_position, !.tornAt = -1]
          /\ Return(h, "close", "OK")
       \/ /\ hr # "OK"
          /\ Hint(h, hr, 0)
          /\ Return(h, "close", hr)
          /\ UNCHANGED <<fdt, locks, gst>>

CloseClose(h) ==
  /\ pc[h] = "cl_close"
  /\ UNCHANGED <<exists, file, durable, bcfg, hist, out>>
  /\ CloseFd(h, bcfg[h].fd)
  /\ \E hr \in HintOutcomes :
       \/ /\ Hint(h, hr, 0)
          /\ gst' = [gst EXCEPT !.closedAt = bcfg[h].binlog_position, !.tornAt = -1]
          /\ Return(h, "close", "OK")
       \/ /\ Hint(h, hr, 1)
          /\ Return(h, "close", "EIO")
          /\ UNCHANGED gst

(* --------------------- binlog_destroy, binlog_init --------------------- *)
\* the owner frees a handle whose descriptor is gone and makes a new one
Reinit(h) ==
  /\ pc[h] \in {"idle", "abort"}
  /\ fdt[h] = {}
  /\ bcfg[h] # binlog_init(bcfg[h].flags) \/ pc[h] = "abort"
  /\ bcfg' = [bcfg EXCEPT ![h] = binlog_init(bcfg[h].flags)]
  /\ pc' = [pc EXCEPT ![h] = "idle"]
  /\ ret' = [ret EXCEPT ![h] = [op |-> "init", err |-> "OK"]]
  /\ out' = [out EXCEPT ![h] = NoOut]
  /\ UNCHANGED <<gst, exists, file, durable, fdt, locks, loc, hist, gh, cnt>>

(* -------------------------------- crash -------------------------------- *)
\* what stable storage may hold at cell i when power is lost
Cand(f, d, i) ==
  (IF i <= Len(f) THEN {f[i]} ELSE {0}) \cup (IF i <= Len(d) THEN {d[i]} ELSE {0})

RECURSIVE Imgs(_, _, _)
Imgs(f, d, n) ==
  IF n = 0 THEN {<<>>}
  ELSE {Append(p, v) : p \in Imgs(f, d, n - 1), v \in Cand(f, d, n)}

\* every unsynced cell and the unsynced size reach the disk or not
CrashImages(f, d) == Imgs(f, d, Len(f)) \cup Imgs(f, d, Len(d))

Crash ==
  /\ exists
  /\ cnt.crashes > 0
  /\ file' \in CrashImages(file, durable)
  /\ durable' = file'
  /\ fdt' = [h \in Handles |-> {}]
  /\ locks' = {}
  /\ bcfg' = [h \in Handles |-> binlog_init(bcfg[h].flags)]
  /\ pc' = [h \in Handles |-> "idle"]
  /\ loc' = [h \in Handles |-> NoLoc]
  /\ ret' = [h \in Handles |-> [op |-> "crash", err |-> "OK"]]
  /\ out' = [h \in Handles |-> NoOut]
  /\ gh' = [h \in Handles |-> NoGh]
  /\ cnt' = [cnt EXCEPT !.crashes = @ - 1]
  /\ gst' = [NoGst EXCEPT !.crashed = TRUE]
  /\ UNCHANGED <<exists, hist>>

(* ----------------------------- binlog_append --------------------------- *)
\* pwrite(bcfg->fd, bytes, Len(bytes), off): <<err, file', durable'>>;
\* a descriptor opened with O_SYNC writes through to stable storage
WriteOutcomes(h, off, bytes) ==
  LET sync == HasFlag(bcfg[h].flags, EBLOB_BINLOG_FLAGS_CFG_SYNC)
      W(b) == <<PWrite(file, off, b),
                IF sync THEN SetSize(PWrite(durable, off, b), Len(PWrite(file, off, b)))
                ELSE durable>>
  IN {<<"OK", W(bytes)[1], W(bytes)[2]>>}
     \cup (IF CanFault
           THEN {<<"EINTR", W(Prefix(bytes, k))[1], W(Prefix(bytes, k))[2]>> :
                    k \in 0..(Len(bytes) - 1)}
                \cup {<<"EIO", file, durable>>}
           ELSE {})

record_len(ctl) == RHDR_SIZE + Len(ctl.meta) + Len(ctl.data)

\* "Construct record header": meta_size is never assigned
rhdr_of(ctl, garbage) ==
  <<ctl.type, Len(ctl.meta) + Len(ctl.data), garbage, ctl.flags, ctl.key>>

IsOpen(h) == bcfg[h].fd >= 0 /\ bcfg[h].fd \in fdt[h]

\* binlog_append entry, "Check if binlog needs to be extended"
AppendExtend(h, ctl, garbage) ==
  /\ pc[h] = "idle"
  /\ cnt.appends > 0
  /\ IsOpen(h)
  /\ bcfg[h].binlog_position > 0
  /\ binlog_verify_record_hdr(rhdr_of(ctl, garbage)) = "OK"
  /\ gh' = [gh EXCEPT ![h].pos0 = bcfg[h].binlog_position]
  /\ out' = [out EXCEPT ![h] = NoOut]
  /\ gst' = [gst EXCEPT !.tornAt = -1, !.closedAt = -1]
  /\ UNCHANGED <<exists, durable, fdt, locks, hist>>
  /\ \/ /\ IF bcfg[h].binlog_position + record_len(ctl) >= bcfg[h].prealloc_size
           THEN binlog_extend(h)
           ELSE UNCHANGED <<bcfg, file>>
        /\ loc' = [loc EXCEPT ![h] = [NoLoc EXCEPT !.ctl = ctl, !.garb = garbage,
                                                   !.off = bcfg[h].binlog_position]]
        /\ Goto(h, "a_hdr")
        /\ Begin(h, "append")
        /\ cnt' = [cnt EXCEPT !.appends = @ - 1]
     \/ /\ bcfg[h].binlog_position + record_len(ctl) >= bcfg[h].prealloc_size
        /\ binlog_extend_fails(h)
        /\ Return(h, "append", "ENOSPC")
        /\ cnt' = [cnt EXCEPT !.appends = @ - 1, !.faults = @ - 1]

\* "Write header": offset = bcfg->binlog_position
AppendHdr(h) ==
  /\ pc[h] = "a_hdr"
  /\ UNCHANGED <<gst, exists, fdt, locks, bcfg, hist, out, gh>>
  /\ \E o \in WriteOutcomes(h, loc[h].off, rhdr_of(loc[h].ctl, loc[h].garb)) :
       /\ file' = o[2]
       /\ durable' = o[3]
       /\ IF o[1] = "OK"
          THEN /\ Goto(h, "a_meta")
               /\ loc' = [loc EXCEPT ![h].done = Append(@, "hdr")]
               /\ UNCHANGED <<ret, cnt>>
          ELSE Return(h, "append", o[1]) /\ Fault

\* the offset of the metadata write: offset += sizeof(rhdr)
MetaOffset(off) == off + RHDR_SIZE

\* "Write metadata"
AppendMeta(h) ==
  /\ pc[h] = "a_meta"
  /\ UNCHANGED <<gst, exists, fdt, locks, bcfg, hist, out, gh>>
  /\ IF Len(loc[h].ctl.meta) > 0
     THEN \E o \in WriteOutcomes(h, MetaOffset(loc[h].off), loc[h].ctl.meta) :
            /\ file' = o[2]
            /\ durable' = o[3]
            /\ IF o[1] = "OK"
               THEN /\ Goto(h, "a_data")
                    /\ loc' = [loc EXCEPT ![h].off = MetaOffset(@),
                                          ![h].done = Append(@, "meta")]
                    /\ UNCHANGED <<ret, cnt>>
               ELSE Return(h, "append", o[1]) /\ Fault
     ELSE /\ Goto(h, "a_data")
          /\ UNCHANGED <<file, durable, loc, ret, cnt>>

\* the offset of the data write: offset += bctl->meta_size
DataOffset(off, ctl) == off + Len(ctl.meta)

\* "Write data"
AppendData(h) ==
  /\ pc[h] = "a_data"
  /\ UNCHANGED <<gst, exists, fdt, locks, bcfg, hist, out, gh>>
  /\ IF Len(loc[h].ctl.data) > 0
     THEN \E o \in WriteOutcomes(h, DataOffset(loc[h].off, loc[h].ctl), loc[h].ctl.data) :
            /\ file' = o[2]
            /\ durable' = o[3]
            /\ IF o[1] = "OK"
               THEN /\ Goto(h, "a_sync")
                    /\ loc' = [loc EXCEPT ![h].off = DataOffset(@, loc[h].ctl),
                                          ![h].done = Append(@, "data")]
                    /\ UNCHANGED <<ret, cnt>>
               ELSE Return(h, "append", o[1]) /\ Fault
     ELSE /\ Goto(h, "a_sync")
          /\ UNCHANGED <<file, durable, loc, ret, cnt>>

\* "Sync if not already opened with O_SYNC"
AppendSync(h) ==
  /\ pc[h] = "a_sync"
  /\ UNCHANGED <<gst, exists, file, fdt, locks, bcfg, hist, out, gh>>
  /\ \/ /\ durable' = IF HasFlag(bcfg[h].flags, EBLOB_BINLOG_FLAGS_CFG_SYNC)
                      THEN durable ELSE file
        /\ loc' = [loc EXCEPT ![h].done =
                     IF HasFlag(bcfg[h].flags, EBLOB_BINLOG_FLAGS_CFG_SYNC)
                     THEN @ ELSE Append(@, "sync")]
        /\ Goto(h, "a_bump")
        /\ UNCHANGED <<ret, cnt>>
     \/ /\ ~HasFlag(bcfg[h].flags, EBLOB_BINLOG_FLAGS_CFG_SYNC)
        /\ CanFault
        /\ Return(h, "append", "EIO")
        /\ Fault
        /\ UNCHANGED durable

\* what hist remembers of an accepted record
Committed(pos, ctl, garbage) ==
  [off |-> pos, type |-> ctl.type, flags |-> ctl.flags, key |-> ctl.key,
   meta |-> ctl.meta, data |-> ctl.data, rhdr |-> rhdr_of(ctl, garbage)]

\* a bump that forgets the metadata: binlog_position += sizeof(rhdr) + size
AppendBump_NoMeta(h) ==
  /\ pc[h] = "a_bump"
  /\ bcfg' = [bcfg EXCEPT ![h].binlog_position = @ + RHDR_SIZE + Len(loc[h].ctl.data)]
  /\ hist' = Append(hist, Committed(bcfg[h].binlog_position, loc[h].ctl, loc[h].garb))
  /\ Return(h, "append", "OK")
  /\ UNCHANGED <<gst, exists, file, durable, fdt, locks, out, gh, cnt>>

\* "Finally is everything is ok - bump length", return 0
AppendBump(h) ==
  /\ pc[h] = "a_bump"
  /\ bcfg' = [bcfg EXCEPT ![h].binlog_position = @ + record_len(loc[h].ctl)]
  /\ hist' = Append(hist, Committed(bcfg[h].binlog_position, loc[h].ctl, loc[h].garb))
  /\ Return(h, "append", "OK")
  /\ UNCHANGED <<gst, exists, file, durable, fdt, locks, out, gh, cnt>>

(* ------------------------------ binlog_read ---------------------------- *)
\* n cells of the buffer buf starting at from; a cell outside the
\* allocation has no defined value and reads as -1
View(buf, from, n) ==
  [i \in 1..n |-> IF from + i <= Len(buf) THEN buf[from + i] ELSE -1]

NoDesc == [err |-> "OK", type |-> 0, flags |-> 0, key |-> 0, meta_size |-> 0,
           meta |-> <<>>, size |-> 0, data |-> <<>>]

binlog_read(f, offset) ==
  LET r == binlog_read_record_hdr(f, offset) IN
  IF r.err # "OK" THEN [NoDesc EXCEPT !.err = r.err]
  ELSE LET size == r.rhdr[2]
           msz == r.rhdr[3]
           buf == IF size # 0 THEN PRead(f, offset + RHDR_SIZE, size) ELSE <<>>
       IN IF Len(buf) # size THEN [NoDesc EXCEPT !.err = "EIO"]
          ELSE [err |-> "OK", type |-> r.rhdr[1], flags |-> r.rhdr[4], key |-> r.rhdr[5],
                meta_size |-> msz,
                meta |-> IF msz > 0 THEN View(buf, 0, msz) ELSE <<>>,
                size |-> size - msz,
                data |-> IF size - msz > 0 THEN View(buf, msz, size - msz) ELSE <<>>]

\* the offsets a caller knows: where appends were accepted, and the log start
ReadOffsets == {DHDR_SIZE} \cup {hist[i].off : i \in 1..Len(hist)}

Read(h, offset) ==
  /\ pc[h] = "idle"
  /\ IsOpen(h)
  /\ offset >= DHDR_SIZE
  /\ out' = [out EXCEPT ![h] = [NoOut EXCEPT !.kind = "read", !.at = offset,
                                  !.err = binlog_read(file, offset).err,
                                  !.recs = <<binlog_read(file, offset)>>]]
  /\ UNCHANGED <<gst, exists, file, durable, fdt, locks, bcfg, pc, loc, ret, hist, gh, cnt>>

(* ------------------------------ binlog_apply --------------------------- *)
\* how far the apply loop moves after a record
ApplyAdvance(bctl) == bctl.size + RHDR_SIZE

\* the loop of binlog_apply; func fails on its failAt-th call (0: never)
RECURSIVE ApplyFrom(_, _, _, _, _, _)
ApplyFrom(f, position, offset, failAt, recs, offs) ==
  IF ~(offset < position)
  THEN [err |-> "OK", recs |-> recs, offs |-> offs, off |-> offset]
  ELSE LET bctl == binlog_read(f, offset) IN
       IF bctl.err # "OK"
       THEN [err |-> bctl.err, recs |-> recs, offs |-> offs, off |-> offset]
       ELSE IF Len(recs) + 1 = failAt
       THEN [err |-> "EFUNC", recs |-> Append(recs, bctl), offs |-> Append(offs, offset),
             off |-> offset]
       ELSE ApplyFrom(f, position, offset + ApplyAdvance(bctl), failAt,
                      Append(recs, bctl), Append(offs, offset))

\* assert(bcfg->binlog_position <= offset) at the entry of binlog_apply
ApplyAssert(position, offset) == position <= offset

binlog_apply(h, failAt) ==
  ApplyFrom(file, bcfg[h].binlog_position, DHDR_SIZE, failAt, <<>>, <<>>)

Apply(h, failAt) ==
  /\ pc[h] = "idle"
  /\ IsOpen(h)
  /\ bcfg[h].binlog_position > 0
  /\ UNCHANGED <<gst, exists, file, durable, bcfg, hist, gh, cnt>>
  /\ \/ /\ ~ApplyAssert(bcfg[h].binlog_position, DHDR_SIZE)
        /\ Abort(h, "apply")
        /\ out' = [out EXCEPT ![h] = [NoOut EXCEPT !.kind = "apply", !.err = "SIGABRT",
                                                  !.at = failAt]]
     \/ /\ AssertPasses(ApplyAssert(bcfg[h].binlog_position, DHDR_SIZE))
        /\ out' = [out EXCEPT ![h] =
                [kind |-> "apply", err |-> binlog_apply(h, failAt).err, at |-> failAt,
                 recs |-> binlog_apply(h, failAt).recs,
                 offs |-> binlog_apply(h, failAt).offs,
                 off |-> binlog_apply(h, failAt).off]]
        /\ UNCHANGED <<fdt, locks, pc, ret, loc>>

(* ------------------------------ environment ---------------------------- *)
\* the file is what the successful appends of hist made it: every accepted
\* record stands at its offset and the header chain ends behind the last
ValidLog ==
  /\ exists
  /\ binlog_hdr_read(file)[1] = "OK"
  /\ \A i \in 1..Len(hist) :
       /\ hist[i].off = IF i = 1 THEN DHDR_SIZE
                        ELSE hist[i - 1].off + RHDR_SIZE + hist[i - 1].rhdr[2]
       /\ PRead(file, hist[i].off, RHDR_SIZE) = hist[i].rhdr
       /\ PRead(file, hist[i].off + RHDR_SIZE, hist[i].rhdr[2]) = hist[i].meta \o hist[i].data
  /\ hist # <<>> =>
       binlog_get_next_lsn(file, TRUE) =
          [end |-> "stop", lsn |-> hist[Len(hist)].off + RHDR_SIZE + hist[Len(hist)].rhdr[2]]

\* somebody cuts the closed, valid log at offset, strictly inside the
\* payload of its last record; what the calls before the cut returned is
\* forgotten
TruncateTail(offset) ==
  /\ \A h \in Handles : fdt[h] = {} /\ pc[h] = "idle"
  /\ hist # <<>>
  /\ ValidLog
  /\ offset > hist[Len(hist)].off + RHDR_SIZE
  /\ offset < hist[Len(hist)].off + RHDR_SIZE + hist[Len(hist)].rhdr[2]
  /\ offset < Len(file)
  /\ file' = SetSize(file, offset)
  /\ durable' = file'
  /\ gst' = [gst EXCEPT !.tornAt = hist[Len(hist)].off, !.closedAt = -1]
  /\ ret' = [h \in Handles |-> NoRet]
  /\ UNCHANGED <<exists, fdt, locks, bcfg, pc, loc, hist, out, gh, cnt>>

(* ------------------------------ the system ----------------------------- *)
\* one owner works with the log through handle 1
Next ==
  \/ OpenCreate(1)
  \/ CreateExtend(1)
  \/ CreateHdr(1)
  \/ OpenReopen(1)
  \/ OpenLock(1)
  \/ OpenTrunc(1)
  \/ OpenStat(1)
  \/ OpenHdr(1)
  \/ \E ctl \in CtlInputs, g \in StackGarbage : AppendExtend(1, ctl, g)
  \/ AppendHdr(1)
  \/ AppendMeta(1)
  \/ AppendData(1)
  \/ AppendSync(1)
  \/ AppendBump(1)
  \/ \E off \in ReadOffsets : Read(1, off)
  \/ \E k \in 0..MaxAppends : Apply(1, k)
  \/ CloseHdr(1)
  \/ CloseSync(1)
  \/ CloseUnlock(1)
  \/ CloseClose(1)
  \/ Reinit(1)
  \/ \E off \in 0..Len(file) : TruncateTail(off)

Spec == Init /\ [][Next]_vars

\* the same owner on a machine that may lose power; no system call fails
InitCrash == InitWith([faults |-> 0, crashes |-> MaxCrashes, appends |-> MaxAppends])

NextCrash ==
  \/ OpenCreate(1)
  \/ CreateExtend(1)
  \/ CreateHdr(1)
  \/ OpenReopen(1)
  \/ OpenLock(1)
  \/ OpenTrunc(1)
  \/ OpenStat(1)
  \/ OpenHdr(1)
  \/ \E ctl \in CtlInputs, g \in StackGarbage : AppendExtend(1, ctl, g)
  \/ AppendHdr(1)
  \/ AppendMeta(1)
  \/ AppendData(1)
  \/ AppendSync(1)
  \/ AppendBump(1)
  \/ Crash

SpecCrash == InitCrash /\ [][NextCrash]_vars

\* two owners, each with its own handle and process, open and close the
\* same path; the file is absent or an empty log
InitLock ==
  /\ exists \in BOOLEAN
  /\ file = IF exists THEN dhdr_of(0) ELSE <<>>
  /\ durable = file
  /\ fdt = [h \in Handles |-> {}]
  /\ locks = {}
  /\ bcfg \in [Handles -> {binlog_init(f) : f \in FlagConfigs}]
  /\ pc = [h \in Handles |-> "idle"]
  /\ loc = [h \in Handles |-> NoLoc]
  /\ ret = [h \in Handles |-> NoRet]
  /\ hist = <<>>
  /\ out = [h \in Handles |-> NoOut]
  /\ gh = [h \in Handles |-> NoGh]
  /\ gst = NoGst
  /\ cnt = [faults |-> MaxFaults, crashes |-> 0, appends |-> 0]

NextLock ==
  \/ \E h \in Handles : OpenCreate(h)
  \/ \E h \in Handles : CreateExtend(h)
  \/ \E h \in Handles : CreateHdr(h)
  \/ \E h \in Handles : OpenReopen(h)
  \/ \E h \in Handles : OpenLock(h)
  \/ \E h \in Handles : OpenTrunc(h)
  \/ \E h \in Handles : OpenStat(h)
  \/ \E h \in Handles : OpenHdr(h)
  \/ \E h \in Handles : CloseHdr(h)
  \/ \E h \in Handles : CloseSync(h)
  \/ \E h \in Handles : CloseUnlock(h)
  \/ \E h \in Handles : CloseClose(h)
  \/ \E h \in Handles : Reinit(h)

SpecLock == InitLock /\ [][NextLock]_vars

\* disk headers an owner may find in a file: the magic, the version or the
\* flags are good or not
HdrInputs ==
  {<<m, v, f>> : m \in {EBLOB_BINLOG_MAGIC, EBLOB_BINLOG_MAGIC - 1},
                 v \in {EBLOB_BINLOG_VERSION, EBLOB_BINLOG_VERSION + 1},
                 f \in {0, EBLOB_BINLOG_FLAGS_CFG_PREALLOC, EBLOB_BINLOG_FLAGS_CFG_ALL,
                        EBLOB_BINLOG_FLAGS_CFG_ALL + 1, EBLOB_BINLOG_FLAGS_CFG_ALL + 2}}

\* what may follow the disk header: nothing, whole records, a record without
\* its payload, preallocated zeros, a header with flags, a piece of a header,
\* and size fields for which size + sizeof(rhdr) wraps to 0 or below
TailInputs ==
  {<<>>,
   <<1, 0, 0, 0, 7>>,
   <<1, 2, 1, 0, 7, 1, 2>>,
   <<1, 2, 1, 0, 7, 1, 2, 2, 0, 0, 0, 8>>,
   <<1, 2, 1, 0, 7>>,
   <<0, 0, 0, 0, 0>>,
   <<1, 0, 0, 1, 7>>,
   <<1, 1>>,
   <<1, 2 ^ OffBits - RHDR_SIZE, 0, 0, 7>>,
   <<1, 2 ^ OffBits - RHDR_SIZE - DHDR_SIZE, 0, 0, 7>>}

\* an owner finds a file at binlog_path and opens it, with or without the
\* truncate flag; no system call fails
InitFile ==
  /\ exists = TRUE
  /\ file \in {d \o t : d \in HdrInputs, t \in TailInputs}
  /\ durable = file
  /\ fdt = [h \in Handles |-> {}]
  /\ locks = {}
  /\ \E f \in {0, EBLOB_BINLOG_FLAGS_CFG_TRUNCATE} :
        bcfg = [h \in Handles |-> binlog_init(IF h = 1 THEN f ELSE 0)]
  /\ pc = [h \in Handles |-> "idle"]
  /\ loc = [h \in Handles |-> NoLoc]
  /\ ret = [h \in Handles |-> NoRet]
  /\ hist = <<>>
  /\ out = [h \in Handles |-> NoOut]
  /\ gh = [h \in Handles |-> NoGh]
  /\ gst = NoGst
  /\ cnt = [faults |-> 0, crashes |-> 0, appends |-> 0]

NextFile ==
  \/ OpenCreate(1)
  \/ OpenReopen(1)
  \/ OpenLock(1)
  \/ OpenTrunc(1)
  \/ OpenStat(1)
  \/ OpenHdr(1)
  \/ \E k \in 0..MaxAppends : Apply(1, k)
  \/ CloseHdr(1)
  \/ CloseSync(1)
  \/ CloseUnlock(1)
  \/ CloseClose(1)
  \/ Reinit(1)

SpecFile == InitFile /\ [][NextFile]_vars

\* two owners and a log that exists, empty or with records: the second
\* owner may ask for preallocation or truncation
ContendTails ==
  {<<>>,
   <<1, 2, 1, 0, 7, 1, 2>>,
   <<1, 2, 1, 0, 7, 1, 2, 2, 0, 0, 0, 8>>}

InitContend ==
  /\ exists = TRUE
  /\ file \in {dhdr_of(0) \o t : t \in ContendTails}
  /\ durable = file
  /\ fdt = [h \in Handles |-> {}]
  /\ locks = {}
  /\ \E f \in {0, EBLOB_BINLOG_FLAGS_CFG_PREALLOC, EBLOB_BINLOG_FLAGS_CFG_TRUNCATE} :
        bcfg = [h \in Handles |-> binlog_init(IF h = 1 THEN 0 ELSE f)]
  /\ pc = [h \in Handles |-> "idle"]
  /\ loc = [h \in Handles |-> NoLoc]
  /\ ret = [h \in Handles |-> NoRet]
  /\ hist = <<>>
  /\ out = [h \in Handles |-> NoOut]
  /\ gh = [h \in Handles |-> NoGh]
  /\ gst = NoGst
  /\ cnt = [faults |-> MaxFaults, crashes |-> 0, appends |-> 0]

NextContend ==
  \/ \E h \in Handles : OpenCreate(h)
  \/ \E h \in Handles : OpenReopen(h)
  \/ \E h \in Handles : OpenLock(h)
  \/ \E h \in Handles : OpenTrunc(h)
  \/ \E h \in Handles : OpenStat(h)
  \/ \E h \in Handles : OpenHdr(h)
  \/ \E h \in Handles : CloseHdr(h)
  \/ \E h \in Handles : CloseSync(h)
  \/ \E h \in Handles : CloseUnlock(h)
  \/ \E h \in Handles : CloseClose(h)
  \/ \E h \in Handles : Reinit(h)

SpecContend == InitContend /\ [][NextContend]_vars

(* ------------------------------- claims -------------------------------- *)
AppendPcs == {"a_hdr", "a_meta", "a_data", "a_sync", "a_bump"}

\* handle h came out of binlog_open with success and has not entered close
Opened(h) ==
  /\ IsOpen(h)
  /\ bcfg[h].disk_hdr # <<>>
  /\ pc[h] \in {"idle"} \cup AppendPcs

OpenReturned(h, err) == pc[h] = "idle" /\ ret[h] = [op |-> "open", err |-> err]

EndOf(r) == r.off + RHDR_SIZE + Len(r.meta) + Len(r.data)

\* the header and the payload of the accepted record r stand at r.off in f
RecordOn(f, r) ==
  /\ PRead(f, r.off, RHDR_SIZE) = r.rhdr
  /\ PRead(f, r.off + RHDR_SIZE, Len(r.meta) + Len(r.data)) = r.meta \o r.data

\* the descriptor d that binlog_read filled equals the accepted record r
SameRecord(d, r) ==
  /\ d.type = r.type
  /\ d.key = r.key
  /\ d.flags = r.flags
  /\ d.meta_size = Len(r.meta)
  /\ d.meta = r.meta
  /\ d.size = Len(r.data)
  /\ d.data = r.data

RECURSIVE SumLen(_)
SumLen(recs) ==
  IF recs = <<>> THEN 0
  ELSE RHDR_SIZE + Len(Head(recs).meta) + Len(Head(recs).data) + SumLen(Tail(recs))

\* the stages an append of handle h has to complete before the bump
Stages(h) ==
  <<"hdr">>
  \o (IF Len(loc[h].ctl.meta) > 0 THEN <<"meta">> ELSE <<>>)
  \o (IF Len(loc[h].ctl.data) > 0 THEN <<"data">> ELSE <<>>)
  \o (IF HasFlag(bcfg[h].flags, EBLOB_BINLOG_FLAGS_CFG_SYNC) THEN <<>> ELSE <<"sync">>)

\* C1: while a handle works on the log it created, every record the write
\* cursor covers has all its bytes, header and payload, written in the file
\* and forced to stable storage.
C1_CursorCoversWrittenSynced ==
  \A h \in Handles :
    (Opened(h) /\ gh[h].created) =>
       \A i \in 1..Len(hist) :
          EndOf(hist[i]) <= bcfg[h].binlog_position =>
             RecordOn(file, hist[i]) /\ RecordOn(durable, hist[i])

\* C1, the order alone: inside binlog_append the cursor moves only in the
\* last step, by the record length, after the header, metadata and data
\* writes and the sync were done in that order.
C1_AdvanceIsLast ==
  [][\A h \in Handles :
       ((pc[h] \in AppendPcs \/ pc'[h] \in AppendPcs)
         /\ bcfg'[h].binlog_position # bcfg[h].binlog_position) =>
           /\ pc[h] = "a_bump"
           /\ loc[h].done = Stages(h)
           /\ bcfg'[h].binlog_position = bcfg[h].binlog_position + record_len(loc[h].ctl)
           /\ \A i \in (bcfg[h].binlog_position + 1)..bcfg'[h].binlog_position :
                 i <= Len(file) => (i <= Len(durable) /\ durable[i] = file[i])]_vars

\* the end of the last record whose append returned 0
LastEnd == IF hist = <<>> THEN DHDR_SIZE ELSE EndOf(hist[Len(hist)])

\* C2: after power was lost, the cursor that binlog_open recovers is at most
\* the end offset of the last record whose append completed.
C2_RecoveredCursorDurable ==
  \A h \in Handles :
    (gst.crashed /\ OpenReturned(h, "OK")) => bcfg[h].binlog_position <= LastEnd

\* C3: after power was lost and the log was opened again, every record whose
\* append returned 0 lies below the recovered cursor, with the header and
\* payload bytes that were appended.
C3_SyncedVisible ==
  \A h \in Handles :
    (gst.crashed /\ OpenReturned(h, "OK")) =>
       \A i \in 1..Len(hist) :
          EndOf(hist[i]) <= bcfg[h].binlog_position /\ RecordOn(file, hist[i])

\* C4: on a log created by this open, the write cursor is the disk header
\* size plus the lengths (record header + metadata + data) of the records
\* whose append succeeded, and an append that failed left the cursor where
\* it was when the append was entered.
C4_CursorIsSum ==
  \A h \in Handles :
    /\ (Opened(h) /\ gh[h].created) =>
          bcfg[h].binlog_position = DHDR_SIZE + SumLen(hist)
    /\ (pc[h] = "idle" /\ ret[h].op = "append" /\ ret[h].err # "OK") =>
          bcfg[h].binlog_position = gh[h].pos0

\* an append with metadata and data succeeded, the next one failed
C4_Witness ==
  /\ gh[1].created
  /\ Opened(1)
  /\ Len(hist) = 1
  /\ hist[1].meta # <<>>
  /\ pc[1] = "idle"
  /\ ret[1] = [op |-> "append", err |-> "EINTR"]
  /\ bcfg[1].binlog_position = DHDR_SIZE + RHDR_SIZE + 2

\* C5: binlog_open after a successful binlog_close recovers the cursor the
\* handle had when it was closed.
C5_ReopenSameCursor ==
  \A h \in Handles :
    (OpenReturned(h, "OK") /\ gst.closedAt >= 0) =>
       bcfg[h].binlog_position = gst.closedAt

\* C6: binlog_apply on the closed and reopened log returns 0 and has handed
\* the handler the accepted records, each once, in append order, with the
\* type, key, metadata and data that were appended.
C6_ReplayAll ==
  \A h \in Handles :
    (out[h].kind = "apply" /\ out[h].at = 0 /\ gst.closedAt >= 0 /\ ~gh[h].created) =>
       /\ out[h].err = "OK"
       /\ Len(out[h].recs) = Len(hist)
       /\ \A i \in 1..Len(hist) :
            i <= Len(out[h].recs) =>
               SameRecord(out[h].recs[i], hist[i]) /\ out[h].offs[i] = hist[i].off

\* C7: when binlog_open succeeds on a valid log that was cut inside the
\* payload of its last record, the cursor is at the start of that record.
C7_TornTailExcluded ==
  \A h \in Handles :
    (gst.tornAt >= 0 /\ OpenReturned(h, "OK")) =>
       bcfg[h].binlog_position = gst.tornAt

\* C8: binlog_read at the offset where the last successful binlog_append put
\* its record yields the type, key, flags, metadata and data appended.
C8_AppendReadRoundTrip ==
  \A h \in Handles :
    (/\ out[h].kind = "read"
     /\ pc[h] = "idle"
     /\ ret[h] = [op |-> "append", err |-> "OK"]
     /\ hist # <<>>
     /\ out[h].at = hist[Len(hist)].off) =>
       out[h].err = "OK" /\ SameRecord(out[h].recs[1], hist[Len(hist)])

\* handle h has the log: binlog_open returned 0 and binlog_close has not
\* reached its unlock yet
HasLog(h) ==
  /\ IsOpen(h)
  /\ bcfg[h].disk_hdr # <<>>
  /\ pc[h] \in {"idle", "cl_sync", "cl_unlock"}
  /\ ret[h].op \in {"open", "close"}
  /\ ret[h] # [op |-> "open", err |-> "EINPROGRESS"]

\* C9: at most one open file description holds the lock, and no two handles
\* have the log at the same time.
C9_SingleWriter ==
  /\ Cardinality(locks) <= 1
  /\ \A h \in Handles : HasLog(h) => \E l \in locks : l[1] = h
  /\ \A h1, h2 \in Handles : (HasLog(h1) /\ HasLog(h2)) => h1 = h2

\* handle 1 has the log and the open of handle 2 was refused
C9_Witness ==
  /\ HasLog(1)
  /\ OpenReturned(2, "EWOULDBLOCK")

\* C10: when each of the two handles has called binlog_open once and both
\* calls have returned, no system call having failed, one returned 0 and the
\* other EWOULDBLOCK.
C10_ExactlyOneOpens ==
  (/\ cnt.faults = MaxFaults
   /\ \A h \in Handles : gh[h].opens = 1 /\ pc[h] = "idle" /\ ret[h].op = "open") =>
     \E w \in Handles :
        /\ ret[w].err = "OK"
        /\ \A o \in Handles \ {w} : ret[o].err = "EWOULDBLOCK"

\* C11: when the handler fails on the k-th of the M records the log holds,
\* binlog_apply returns that failure, having handed the handler the records
\* 1..k in append order, each once, and nothing after the k-th.
C11_AbortPropagation ==
  \A h \in Handles :
    (/\ out[h].kind = "apply"
     /\ out[h].at >= 1
     /\ out[h].at <= Len(hist)
     /\ gh[h].created) =>
       /\ out[h].err = "EFUNC"
       /\ Len(out[h].recs) = out[h].at
       /\ \A i \in 1..Len(out[h].recs) :
            i <= Len(hist) =>
               SameRecord(out[h].recs[i], hist[i]) /\ out[h].offs[i] = hist[i].off

\* C12: when binlog_open returns an error on a handle fresh from
\* binlog_init, the handle has no descriptor left open, holds no lock, and
\* its fd field is still -1.
C12_FailedOpenUnopened ==
  \A h \in Handles :
    (/\ pc[h] = "idle"
     /\ ret[h].op = "open"
     /\ ret[h].err \notin {"OK", "EINPROGRESS"}
     /\ bcfg[h].disk_hdr = <<>>) =>
       /\ fdt[h] = {}
       /\ \A l \in locks : l[1] # h
       /\ bcfg[h].fd = -1

\* C13: a call of binlog_open on a handle that is open returns an error
\* at once and changes neither the handle, its descriptors, the lock nor
\* the file.
C13_OpenOnOpenRejected ==
  [][\A h \in Handles :
       (/\ Opened(h)
        /\ pc[h] = "idle"
        /\ ret'[h].op = "open"
        /\ ret'[h] # ret[h]) =>
          /\ pc'[h] = "idle"
          /\ ret'[h].err \notin {"OK", "EINPROGRESS", "SIGABRT"}
          /\ bcfg'[h] = bcfg[h]
          /\ fdt'[h] = fdt[h]
          /\ locks' = locks
          /\ file' = file]_vars

\* C14: while a handle is open its write cursor does not exceed its
\* preallocated-size counter.
C14_CursorWithinPrealloc ==
  \A h \in Handles :
    Opened(h) => bcfg[h].binlog_position <= bcfg[h].prealloc_size

\* the disk header of the file, and the handle's first binlog_open on it is
\* over: it returned, was aborted, or hangs in the recovery scan
FoundHdr == PRead(file, 0, DHDR_SIZE)

FirstOpenOver(h) ==
  /\ gh[h].opens = 1
  /\ ret[h].op = "open"
  /\ pc[h] \in {"idle", "abort", "o_scan"}

\* the errors binlog_verify_hdr uses for a wrong magic, a wrong version and
\* an unknown flag bit, each on an otherwise good header
FormatMismatch ==
  binlog_verify_hdr(<<EBLOB_BINLOG_MAGIC - 1, EBLOB_BINLOG_VERSION, 0>>)

UnsupportedVersion ==
  binlog_verify_hdr(<<EBLOB_BINLOG_MAGIC, EBLOB_BINLOG_VERSION + 1, 0>>)

InvalidFlags ==
  binlog_verify_hdr(<<EBLOB_BINLOG_MAGIC, EBLOB_BINLOG_VERSION, EBLOB_BINLOG_FLAGS_CFG_ALL + 1>>)

GoodMagic(d) == d[1] = EBLOB_BINLOG_MAGIC
GoodVersion(d) == d[2] = EBLOB_BINLOG_VERSION
GoodFlags(d) == AndNot(d[3], EBLOB_BINLOG_FLAGS_CFG_ALL) = 0

\* C15: the header check behind binlog_open passes exactly the headers with
\* the right magic, the current version and known flags, and the error it
\* returns tells the defect: the error of a wrong magic is returned for a
\* wrong magic only, that of a wrong version for a wrong version only, that
\* of unknown flags for unknown flags only.
C15_VerifyKinds ==
  \A h \in Handles :
    (FirstOpenOver(h) /\ pc[h] = "idle" /\ ret[h].err # "OK") =>
       /\ ~(GoodMagic(FoundHdr) /\ GoodVersion(FoundHdr) /\ GoodFlags(FoundHdr))
       /\ ~GoodMagic(FoundHdr) => ret[h].err = FormatMismatch
       /\ (GoodMagic(FoundHdr) /\ ~GoodVersion(FoundHdr)) => ret[h].err = UnsupportedVersion
       /\ (GoodMagic(FoundHdr) /\ GoodVersion(FoundHdr)) => ret[h].err = InvalidFlags
       /\ ret[h].err = FormatMismatch => ~GoodMagic(FoundHdr)
       /\ ret[h].err = UnsupportedVersion => ~GoodVersion(FoundHdr)
       /\ ret[h].err = InvalidFlags => ~GoodFlags(FoundHdr)

\* C15, rejection alone: a header passes the check exactly when its magic,
\* its version and its flags are good, and a bad one is answered with the
\* error of the first defect in the order magic, version, flags.
C15_RejectsBad ==
  \A h \in Handles :
    (FirstOpenOver(h) /\ pc[h] = "idle") =>
       /\ ret[h].err = "OK" <=>
            (GoodMagic(FoundHdr) /\ GoodVersion(FoundHdr) /\ GoodFlags(FoundHdr))
       /\ ~GoodMagic(FoundHdr) => ret[h].err = "EINVAL"
       /\ (GoodMagic(FoundHdr) /\ ~GoodVersion(FoundHdr)) => ret[h].err = "ENOTSUP"
       /\ (GoodMagic(FoundHdr) /\ GoodVersion(FoundHdr) /\ ~GoodFlags(FoundHdr)) =>
            ret[h].err = "EINVAL"

\* C16: after a successful binlog_append the record header at the record's
\* offset has a type strictly between the sentinels, no flags, the size
\* meta_size + data size of the descriptor, and the descriptor's metadata
\* size in its meta_size field.
C16_RecordHeaderOnDisk ==
  \A h \in Handles :
    (pc[h] = "idle" /\ ret[h] = [op |-> "append", err |-> "OK"] /\ hist # <<>>) =>
       LET r == hist[Len(hist)]
           d == PRead(file, r.off, RHDR_SIZE)
       IN /\ Len(d) = RHDR_SIZE
          /\ d[1] > EBLOB_BINLOG_TYPE_FIRST /\ d[1] < EBLOB_BINLOG_TYPE_LAST
          /\ d[4] = 0
          /\ d[2] = Len(r.meta) + Len(r.data)
          /\ d[3] = Len(r.meta)
          /\ d[2] >= d[3]

\* handle h holds the flock on its open descriptor
HoldsLock(h) == IsOpen(h) /\ <<h, bcfg[h].fd>> \in locks

\* C17: binlog_close rewrites the header, syncs, unlocks and closes in that
\* order, each step entered only from the one before it; when the header
\* rewrite, the sync or the unlock fails, close returns that error at once
\* and the handle still holds its lock on its open descriptor.
C17_CloseOrder ==
  [][\A h \in Handles :
       /\ (pc'[h] = "cl_sync" /\ pc[h] # "cl_sync") =>
             /\ pc[h] = "idle"
             /\ PRead(file', 0, DHDR_SIZE) = bcfg[h].disk_hdr
       /\ (pc'[h] = "cl_unlock" /\ pc[h] # "cl_unlock") =>
             /\ pc[h] = "cl_sync"
             /\ durable' = file'
       /\ (pc'[h] = "cl_close" /\ pc[h] # "cl_close") =>
             /\ pc[h] = "cl_unlock"
             /\ <<h, bcfg[h].fd>> \notin locks'
             /\ bcfg[h].fd \in fdt'[h]
       /\ (pc[h] # "idle" /\ pc'[h] = "idle" /\ ret'[h] = [op |-> "close", err |-> "OK"]) =>
             /\ pc[h] = "cl_close"
             /\ bcfg[h].fd \notin fdt'[h]
       /\ (/\ \/ pc[h] = "idle" /\ HoldsLock(h) /\ bcfg[h].disk_hdr # <<>>
              \/ pc[h] \in {"cl_sync", "cl_unlock"}
           /\ pc'[h] = "idle"
           /\ ret'[h].op = "close"
           /\ ret'[h].err # "OK") =>
             /\ HoldsLock(h)'
             /\ fdt'[h] = fdt[h]
             /\ locks' = locks
             /\ bcfg'[h] = bcfg[h]]_vars

\* a close of an open log came back with the error of a failed sync or
\* header datasync, and the handle still has its descriptor and its lock
C17_Witness ==
  /\ pc[1] = "idle"
  /\ ret[1] = [op |-> "close", err |-> "EIO"]
  /\ HoldsLock(1)
  /\ bcfg[1].disk_hdr # <<>>
  /\ hist # <<>>

\* every accepted record has its metadata size in the meta_size field
MetaSizeStored == \A i \in 1..Len(hist) : hist[i].rhdr[3] = Len(hist[i].meta)

\* C18: on a log that append wrote, metadata included, an apply whose loop
\* ran reads each record at the offset where it was appended, one read per
\* record, and leaves the loop without error at the write cursor.
C18_ApplyAdvance ==
  \A h \in Handles :
    (/\ out[h].kind = "apply" /\ out[h].at = 0 /\ out[h].err # "SIGABRT"
     /\ Opened(h) /\ gh[h].created
     /\ ValidLog /\ MetaSizeStored) =>
       /\ out[h].err = "OK"
       /\ out[h].offs = [i \in 1..Len(hist) |-> hist[i].off]
       /\ out[h].off = bcfg[h].binlog_position

\* C19: with the truncate flag the file is cut only by the holder of the
\* lock, and after a successful open of an existing log the file is the
\* disk header alone, the write cursor and the preallocated-size counter
\* are the header size, and an apply delivers no record.
C19_TruncateDiscards ==
  \A h \in Handles :
    HasFlag(bcfg[h].flags, EBLOB_BINLOG_FLAGS_CFG_TRUNCATE) =>
      /\ pc[h] \in {"o_trunc", "o_stat", "o_hdr"} => <<h, loc[h].fd>> \in locks
      /\ pc[h] \in {"o_stat", "o_hdr"} => Len(file) = DHDR_SIZE
      /\ Opened(h) =>
           /\ Len(file) = DHDR_SIZE
           /\ bcfg[h].binlog_position = DHDR_SIZE
           /\ bcfg[h].prealloc_size = DHDR_SIZE
           /\ out[h].kind = "apply" =>
                /\ out[h].err = "OK"
                /\ out[h].recs = <<>>
                /\ out[h].off = DHDR_SIZE

\* a log of two whole records, still on the disk, was opened with the
\* truncate flag and then replayed
C19_Witness ==
  /\ HasFlag(bcfg[1].flags, EBLOB_BINLOG_FLAGS_CFG_TRUNCATE)
  /\ OpenReturned(1, "OK")
  /\ Opened(1)
  /\ gh[1].opens = 1
  /\ binlog_get_next_lsn(durable, TRUE).lsn > DHDR_SIZE + RHDR_SIZE + RHDR_SIZE
  /\ out[1].kind = "apply"

\* C20: whatever follows a good disk header, the first binlog_open of the
\* file comes back, with success, and its write cursor is an offset behind
\* the disk header at which no record header reads and verifies.  A handle
\* at "o_scan" is in the while loop of binlog_get_next_lsn for ever.
C20_ScanTerminates ==
  \A h \in Handles :
    (FirstOpenOver(h) /\ binlog_hdr_read(file)[1] = "OK") =>
       /\ pc[h] = "idle"
       /\ ret[h].err = "OK"
       /\ bcfg[h].binlog_position >= DHDR_SIZE
       /\ binlog_read_record_hdr(file, bcfg[h].binlog_position).err # "OK"

\* C21: a failed page-cache hint changes nothing but the log line.  In open
\* the step that makes the hint goes on to fstat with the handle holding
\* the new descriptor, exactly as after a good hint; in close, when
\* close(2) itself succeeds, binlog_close returns 0 and the descriptor is
\* gone, exactly as after a good hint.
C21_HintNotFatal ==
  [][\A h \in Handles :
       /\ (pc[h] = "o_trunc" /\ gh'[h].hint \notin {"OK", "none"}) =>
             /\ pc'[h] = "o_stat"
             /\ ret'[h] = ret[h]
             /\ bcfg'[h] = [bcfg[h] EXCEPT !.fd = loc[h].fd]
             /\ fdt' = fdt
             /\ locks' = locks
       /\ (/\ pc[h] = "cl_close" /\ gh'[h].hint \notin {"OK", "none"}
           /\ cnt'.faults = cnt.faults - 1) =>
             /\ pc'[h] = "idle"
             /\ ret'[h] = [op |-> "close", err |-> "OK"]
             /\ bcfg[h].fd \notin fdt'[h]
             /\ bcfg'[h] = bcfg[h]
             /\ gst'.closedAt = bcfg[h].binlog_position]_vars

\* the will-need hint failed and binlog_open returned 0 with the log open
C21_WitnessOpen ==
  /\ OpenReturned(1, "OK")
  /\ gh[1].hint = "EINVAL"
  /\ HoldsLock(1)
  /\ bcfg[1].disk_hdr # <<>>

\* the don't-need hint failed and binlog_close returned 0 on a log with a
\* record
C21_Witness ==
  /\ pc[1] = "idle"
  /\ ret[1] = [op |-> "close", err |-> "OK"]
  /\ gh[1].hint = "EINVAL"
  /\ cnt.faults = MaxFaults - 1
  /\ fdt[1] = {}
  /\ hist # <<>>

\* C22: the assertion at the entry of binlog_apply holds on every call made
\* on a log that the handle created and appended to: no such apply ends in
\* the abort of a failed assertion.
C22_ApplyAssertHolds ==
  \A h \in Handles :
    (out[h].kind = "apply" /\ gh[h].created /\ hist # <<>>) =>
       /\ out[h].err # "SIGABRT"
       /\ pc[h] # "abort"

\* handle h takes a step
Steps(h) == pc'[h] # pc[h] \/ ret'[h] # ret[h]

\* C23: an open of a file that exists writes nothing up to and including
\* its flock, whatever its flags; it can fail with the lock error in the
\* flock step only, and then all it does is close its own descriptor: the
\* file, its durable image, the locks and the handle are as before.
C23_LockedOutOpenWritesNothing ==
  [][\A h \in Handles :
       /\ (/\ Steps(h)
           /\ ret'[h].op = "open"
           /\ ~gh'[h].created
           /\ pc[h] \in {"idle", "o_reopen", "o_lock"}) =>
             /\ file' = file
             /\ durable' = durable
             /\ exists' = exists
       /\ (Steps(h) /\ ret'[h] = [op |-> "open", err |-> "EWOULDBLOCK"]) =>
             /\ pc[h] = "o_lock"
             /\ \E l \in locks : l # <<h, loc[h].fd>>
             /\ locks' = locks
             /\ fdt' = [fdt EXCEPT ![h] = @ \ {loc[h].fd}]
             /\ bcfg' = bcfg]_vars

\* handle 1 has the log with its two records, and handle 2, which asks for
\* truncation, was turned away at the lock
C23_Witness ==
  /\ Opened(1) /\ HoldsLock(1)
  /\ HasFlag(bcfg[2].flags, EBLOB_BINLOG_FLAGS_CFG_TRUNCATE)
  /\ OpenReturned(2, "EWOULDBLOCK")
  /\ Len(file) = DHDR_SIZE + 12
  /\ bcfg[1].binlog_position = Len(file)

\* C24: when binlog_close has returned 0 the handle is closed again: its fd
\* field is -1, the value binlog_init gives it and binlog_open asserts; and
\* a close on a handle that was closed with success is answered with the
\* invalid-argument error.
C24_ClosedHandleUnopened ==
  \A h \in Handles :
    /\ (pc[h] = "idle" /\ ret[h] = [op |-> "close", err |-> "OK"]) =>
          bcfg[h].fd = binlog_init(bcfg[h].flags).fd
    /\ (pc[h] = "idle" /\ ret[h].op = "close" /\ gst.closedAt >= 0 /\ fdt[h] = {}
        /\ bcfg[h].disk_hdr # <<>>) =>
          ret[h].err \in {"OK", "EINVAL"}

====
